---- MODULE Spec2Model ----
(***************************************************************************)
(* PrismaUnitOfWork (src/src/unit-of-work/PrismaUnitOfWork.ts): the        *)
(* transaction lifecycle state machine and its rendezvous bridge with the  *)
(* external interactive-transaction entry point prisma.$transaction.       *)
(*                                                                         *)
(* One PrismaUnitOfWork instance is modelled.  Each public method is one   *)
(* action (its synchronous body); where a method awaits (dispose awaiting  *)
(* rollback(), a savepoint method awaiting $executeRawUnsafe) the part     *)
(* after the await is a second action.  The external client is the         *)
(* environment: it invokes the transaction callback (Deliver), and settles *)
(* the $transaction promise, which runs the .then / .catch continuation    *)
(* of start().                                                             *)
(*                                                                         *)
(* Spec drives the instance method by method; SpecExec drives it through   *)
(* executeInTransaction(), the callback being the caller of the methods    *)
(* while it runs.                                                          *)
(*                                                                         *)
(* SpecFactory drives PrismaUnitOfWorkFactory and the units it creates.     *)
(* SpecLogger is Spec with a logger configured; in the other                *)
(* specifications no logger is configured (the default).                   *)
(*                                                                         *)
(* Fields written but never read by the class (currentOptions,             *)
(* transactionResult) are not carried.                                     *)
(***************************************************************************)
EXTENDS Integers, Sequences, FiniteSets, TLC

VARIABLES
    state,                \* _state
    txClient,             \* txClient: Null or the handle of the transaction
    commitResolve,        \* commitResolve is set (TRUE) or null (FALSE)
    rollbackReject,       \* rollbackReject is set (TRUE) or null (FALSE)
    repositoryFactories,  \* Map key -> factory
    repositoryCache,      \* Map key -> repository instance
    savepoints,           \* Map name -> createdAt
    savepointOrder,       \* the names in savepoints, in insertion order
    transactionStartTime, \* transactionStartTime
    disposed,             \* disposed
    context,              \* _context
    enableSavepoints,     \* config.enableSavepoints
    logger,               \* config.logger
    now,                  \* the clock read by Date.now() / new Date()
    ext,                  \* the external $transaction call
    startPromise,         \* the promise start() returned
    txCalls,              \* how many times prisma.$transaction was invoked
    signalsSent,          \* the bridge signals invoked so far, in order
    nextRepoId,           \* serial of the next object a factory returns
    factoryCalls,         \* history: Map key -> how often its factory was invoked
    pendingSp,            \* savepoint call awaiting its database statement
    disposePending,       \* a dispose() call awaiting its rollback()
    factoryRegistry,      \* PrismaUnitOfWorkFactory.repositoryFactories: Map key -> factory
    created,              \* the units of work the factory created, in order
    exec,                 \* the executeInTransaction() call: where it is, what it gave
    rollbackCalls,        \* history: the callers whose rollback() went past its early return
    last                  \* the step just taken and what it gave the caller

vars == <<state, txClient, commitResolve, rollbackReject, repositoryFactories,
          repositoryCache, savepoints, savepointOrder, transactionStartTime, disposed, context,
          enableSavepoints, logger, now, ext, startPromise, txCalls, signalsSent, nextRepoId, factoryCalls, pendingSp,
          disposePending, factoryRegistry, created, exec, rollbackCalls, last>>

----------------------------------------------------------------------------
(* Bounds of the model *)

MaxClock == 1
MaxRepos == 2
MaxUnits == 2

----------------------------------------------------------------------------
(* TransactionStateEnum *)

Inactive    == "INACTIVE"
Active      == "ACTIVE"
Committing  == "COMMITTING"
Committed   == "COMMITTED"
RollingBack == "ROLLING_BACK"
RolledBack  == "ROLLED_BACK"
Failed      == "FAILED"

TransactionStateEnum ==
    {Inactive, Active, Committing, Committed, RollingBack, RolledBack, Failed}

(* Error classes, by name *)
TransactionAlreadyActiveError == "TransactionAlreadyActiveError"
NoActiveTransactionError      == "NoActiveTransactionError"
RepositoryNotRegisteredError  == "RepositoryNotRegisteredError"
SavepointError                == "SavepointError"
SavepointNotFoundError        == "SavepointNotFoundError"
TransactionTimeoutError       == "TransactionTimeoutError"
UnitOfWorkDisposedError       == "UnitOfWorkDisposedError"

(* What a method of the configured logger throws, when it throws. *)
LoggerError == "LoggerError"

----------------------------------------------------------------------------
(* Values *)

Null == "null"
Tx   == "tx"          \* the transaction-scoped client the callback receives

EmptyMap == [k \in {} |-> Null]

MapSet(m, k, v) == [x \in (DOMAIN m) \cup {k} |-> IF x = k THEN v ELSE m[x]]

MapDelete(m, k) == [x \in (DOMAIN m) \ {k} |-> m[x]]

MapGet(m, k, undefined) == IF k \in DOMAIN m THEN m[k] ELSE undefined

(* The insertion order of a Map after entries were set / deleted. *)
OrderAfterSet(order, k) ==
    IF \E i \in 1..Len(order) : order[i] = k THEN order ELSE Append(order, k)

OrderRestrictedTo(order, keys) ==
    LET kept(k) == k \in keys IN SelectSeq(order, kept)

(* Repository tokens: a string, a symbol, or a class (with its name). *)
StringToken(s) == [kind |-> "string", name |-> s]
ClassToken(s)  == [kind |-> "class",  name |-> s]
NoToken        == [kind |-> "none",   name |-> ""]
SavepointArg(n) == [kind |-> "savepoint", name |-> n]

TokenInputs == {StringToken("UserRepository"), ClassToken("UserRepository")}

FactoryInputs == {"f1", "f2"}

SavepointNames == {"sp1", "sp2"}

ContextInputs == {"ctx"}

NoPending == [op |-> "none", name |-> ""]

(* executeInTransaction(): pc is where the call stands, cb how the callback
   settled, out what the caller received. *)
NotExecuting == [pc |-> "idle", cb |-> "none", out |-> "none"]

NoRepo == [by |-> Null, tx |-> Null, id |-> 0]

(* Errors the external client rejects $transaction with. *)
ConnectionError ==
    [name |-> "Connection refused", saysTimeout |-> FALSE,
     saysApiError |-> FALSE, code |-> "none"]
TimeoutError ==
    [name |-> "Transaction API error: Transaction timed out", saysTimeout |-> FALSE,
     saysApiError |-> TRUE, code |-> "P2024"]
RollbackSignalError ==
    [name |-> "Transaction rolled back", saysTimeout |-> FALSE,
     saysApiError |-> FALSE, code |-> "none"]

ExternalErrors == {ConnectionError, TimeoutError}

(* config.logger: absent, or an object whose debug / info / warn / error
   methods return, except for the messages it throws on.  The messages are
   those logged at info, warn and error level; a logger whose debug method
   throws makes the constructor throw (line 292), so that no instance
   exists. *)
NoLogger == [present |-> FALSE, throwsOn |-> {}]

Logger(messages) == [present |-> TRUE, throwsOn |-> messages]

LoggerInputs ==
    {NoLogger, Logger({}),
     Logger({"Starting transaction"}),
     Logger({"Transaction committed"}),
     Logger({"Transaction rolled back"}),
     Logger({"Transaction failed"}),
     Logger({"Disposing with active transaction, rolling back"})}

(* What a step gave the caller: Ret for the call of a public method, Resumed
   for the part of a method after its await, Env for a step of the external
   client (with the continuation of start() it runs). *)
Ret(op, res) ==
    [step |-> "call", op |-> op, res |-> res, code |-> "none", dur |-> -1,
     repo |-> NoRepo, arg |-> NoToken, stmt |-> "none", keys |-> {},
     unit |-> 0, fn |-> "none"]

Resumed(op, res) == [Ret(op, res) EXCEPT !.step = "resume"]

Env(op, res) == [Ret(op, res) EXCEPT !.step = "env"]

----------------------------------------------------------------------------
(* Private helpers *)

normalizeToken(token) ==
    IF token.kind \in {"string", "symbol"}
    THEN token
    ELSE StringToken(IF token.name # "" THEN token.name ELSE "class { }")

isTimeoutError(error) ==
    \/ error.saysTimeout
    \/ error.saysApiError
    \/ error.code = "P2024"

(* Faulty variant: rollback() is not checked for disposal. *)
ensureNotDisposedFails_RollbackExempt(operation) ==
    disposed /\ operation # "rollback"

ensureNotDisposedFails(operation) == disposed

(* this.config.logger?.[level](message, meta): TRUE when the call throws. *)
logThrows(lg, message) == lg.present /\ message \in lg.throwsOn

(* Faulty variant: the handle is not checked. *)
ensureActiveTransactionFails_StateOnly == state # Active

ensureActiveTransactionFails == state # Active \/ txClient = Null

(* Faulty variant: the bridge signals are left in place. *)
clearTransactionState_KeepsSignals ==
    /\ txClient' = Null
    /\ repositoryCache' = EmptyMap
    /\ savepoints' = EmptyMap
    /\ savepointOrder' = <<>>
    /\ UNCHANGED <<commitResolve, rollbackReject>>

clearTransactionState ==
    /\ txClient' = Null
    /\ repositoryCache' = EmptyMap
    /\ savepoints' = EmptyMap
    /\ savepointOrder' = <<>>
    /\ commitResolve' = FALSE
    /\ rollbackReject' = FALSE

(* commitResolve() / rollbackReject(): settle the inner promise the
   transaction callback is suspended on, if it is still pending. *)
AfterCommitSignal(e)   == IF e = "open" THEN "cbResolved" ELSE e
AfterRollbackSignal(e) == IF e = "open" THEN "cbRejected" ELSE e

----------------------------------------------------------------------------
InitWith(lg) ==
    /\ state = Inactive
    /\ txClient = Null
    /\ commitResolve = FALSE
    /\ rollbackReject = FALSE
    /\ repositoryFactories = EmptyMap
    /\ repositoryCache = EmptyMap
    /\ savepoints = EmptyMap
    /\ savepointOrder = <<>>
    /\ transactionStartTime = 0
    /\ disposed = FALSE
    /\ context = Null
    /\ enableSavepoints \in BOOLEAN
    /\ logger = lg
    /\ now = 0
    /\ ext = "none"
    /\ startPromise = "none"
    /\ txCalls = 0
    /\ signalsSent = <<>>
    /\ nextRepoId = 1
    /\ factoryCalls = EmptyMap
    /\ pendingSp = NoPending
    /\ disposePending = FALSE
    /\ factoryRegistry = EmptyMap
    /\ created = <<>>
    /\ exec = NotExecuting
    /\ rollbackCalls = {}
    /\ last = Ret("new", "ok")

(* new PrismaUnitOfWork(prisma) or with a config that names no logger. *)
Init == InitWith(NoLogger)

(* new PrismaUnitOfWork(prisma, {logger}) *)
InitLogger == \E lg \in LoggerInputs : InitWith(lg)

----------------------------------------------------------------------------
(* start() *)

(* Faulty variants of the state check of start(). *)
startRejected_ActiveRestartable == state \notin {Inactive, Active}

startRejected_TerminalReusable == state \notin {Inactive, Committed, RolledBack, Failed}

startRejected == state # Inactive

StartWith(lg) ==
    /\ IF ensureNotDisposedFails("start")
       THEN /\ last' = Ret("start", UnitOfWorkDisposedError)
            /\ UNCHANGED <<state, transactionStartTime, ext, startPromise, txCalls>>
       ELSE IF startRejected
       THEN /\ last' = Ret("start", TransactionAlreadyActiveError)
            /\ UNCHANGED <<state, transactionStartTime, ext, startPromise, txCalls>>
       ELSE /\ transactionStartTime' = now
            /\ state' = Active
            /\ IF logThrows(lg, "Starting transaction")
               THEN \* start() throws before it calls prisma.$transaction
                    /\ last' = Ret("start", LoggerError)
                    /\ UNCHANGED <<ext, startPromise, txCalls>>
               ELSE /\ ext' = "starting"
                    /\ txCalls' = txCalls + 1
                    /\ startPromise' = "pending"
                    /\ last' = Ret("start", "pending")
    /\ UNCHANGED <<txClient, commitResolve, rollbackReject, repositoryFactories,
                   repositoryCache, savepoints, savepointOrder, disposed, context, enableSavepoints, now,
                   signalsSent, nextRepoId, factoryCalls, pendingSp, disposePending,
                   rollbackCalls>>

Start == StartWith(logger)

(* The external client invokes the transaction callback with the handle. *)
Deliver ==
    /\ ext = "starting"
    /\ txClient' = Tx
    /\ commitResolve' = TRUE
    /\ rollbackReject' = TRUE
    /\ startPromise' = IF startPromise = "pending" THEN "resolved" ELSE startPromise
    /\ ext' = "open"
    /\ last' = Env("deliver", "ok")
    /\ UNCHANGED <<state, repositoryFactories, repositoryCache, savepoints, savepointOrder,
                   transactionStartTime, disposed, context, enableSavepoints, now, txCalls,
                   signalsSent, nextRepoId, factoryCalls, pendingSp, disposePending,
                   rollbackCalls>>

(* Faulty variant: the continuation lands on Committed only from Committing. *)
ThenContinuation_OnlyFromCommitting ==
    /\ ext = "cbResolved"
    /\ state' = IF state = Committing THEN Committed ELSE state
    /\ ext' = "committed"
    /\ last' = Env("then", "ok")
    /\ UNCHANGED <<txClient, commitResolve, rollbackReject, repositoryFactories,
                   repositoryCache, savepoints, savepointOrder, transactionStartTime, disposed,
                   context, enableSavepoints, now, startPromise, txCalls,
                   signalsSent, nextRepoId, factoryCalls, pendingSp, disposePending,
                   rollbackCalls>>

(* $transaction resolved: the .then continuation of start().  When its log
   call throws, the .catch continuation chained after it runs with that
   error: state is Committed, not RollingBack, there. *)
ThenContinuationWith(lg) ==
    /\ ext = "cbResolved"
    /\ IF logThrows(lg, "Transaction committed")
       THEN /\ state' = Failed
            /\ last' = Env("then", LoggerError)
       ELSE /\ state' = Committed
            /\ last' = Env("then", "ok")
    /\ ext' = "committed"
    /\ UNCHANGED <<txClient, commitResolve, rollbackReject, repositoryFactories,
                   repositoryCache, savepoints, savepointOrder, transactionStartTime, disposed,
                   context, enableSavepoints, now, startPromise, txCalls, signalsSent, nextRepoId, factoryCalls,
                   pendingSp, disposePending, rollbackCalls>>

ThenContinuation == ThenContinuationWith(logger)

(* Faulty variant: every rejection is classified Failed. *)
CatchContinuation_AlwaysFailed(error) ==
    /\ state' = Failed
    /\ startPromise' = IF isTimeoutError(error) /\ startPromise = "pending"
                       THEN "rejected"
                       ELSE startPromise
    /\ ext' = "aborted"
    /\ last' = Env("catch", error.name)
    /\ UNCHANGED <<txClient, commitResolve, rollbackReject, repositoryFactories,
                   repositoryCache, savepoints, savepointOrder, transactionStartTime, disposed,
                   context, enableSavepoints, now, txCalls, signalsSent, nextRepoId, factoryCalls, pendingSp,
                   disposePending, rollbackCalls>>

(* $transaction rejected with error: the .catch continuation of start().  A
   log call that throws ends the continuation where it stands. *)
CatchContinuationWith(lg, error) ==
    /\ IF state = RollingBack
       THEN /\ state' = RolledBack
            /\ UNCHANGED startPromise
            /\ last' = IF logThrows(lg, "Transaction rolled back")
                       THEN Env("catch", LoggerError)
                       ELSE Env("catch", error.name)
       ELSE /\ state' = Failed
            /\ IF logThrows(lg, "Transaction failed")
               THEN /\ UNCHANGED startPromise
                    /\ last' = Env("catch", LoggerError)
               ELSE /\ startPromise' =
                          IF isTimeoutError(error) /\ startPromise = "pending"
                          THEN "rejected"
                          ELSE startPromise
                    /\ last' = Env("catch", error.name)
    /\ ext' = "aborted"
    /\ UNCHANGED <<txClient, commitResolve, rollbackReject, repositoryFactories,
                   repositoryCache, savepoints, savepointOrder, transactionStartTime, disposed,
                   context, enableSavepoints, now, txCalls, signalsSent, nextRepoId, factoryCalls, pendingSp,
                   disposePending, rollbackCalls>>

CatchContinuation(error) == CatchContinuationWith(logger, error)

(* The callback rejected (rollback signal): $transaction rejects with that error. *)
ExtRolledBack ==
    /\ ext = "cbRejected"
    /\ CatchContinuation(RollbackSignalError)

(* The external client fails before it has invoked the callback. *)
ExtFailBeforeDeliver ==
    /\ ext = "starting"
    /\ \E error \in ExternalErrors : CatchContinuation(error)

(* The external client ends the open transaction on its own (timeout). *)
ExtFailWhileOpen ==
    /\ ext = "open"
    /\ \E error \in ExternalErrors : CatchContinuation(error)

(* The external client fails to commit after the callback resolved. *)
ExtFailOnCommit ==
    /\ ext = "cbResolved"
    /\ \E error \in ExternalErrors : CatchContinuation(error)

----------------------------------------------------------------------------
(* commit() *)

Commit ==
    /\ IF ensureNotDisposedFails("commit")
       THEN /\ last' = Ret("commit", UnitOfWorkDisposedError)
            /\ UNCHANGED <<state, txClient, commitResolve, rollbackReject,
                           repositoryCache, savepoints, savepointOrder, ext, signalsSent>>
       ELSE IF ensureActiveTransactionFails
       THEN /\ last' = Ret("commit", NoActiveTransactionError)
            /\ UNCHANGED <<state, txClient, commitResolve, rollbackReject,
                           repositoryCache, savepoints, savepointOrder, ext, signalsSent>>
       ELSE /\ state' = Committing
            /\ IF commitResolve
               THEN /\ ext' = AfterCommitSignal(ext)
                    /\ signalsSent' = Append(signalsSent, "commit")
               ELSE UNCHANGED <<ext, signalsSent>>
            /\ clearTransactionState
            /\ last' = [Ret("commit", "success") EXCEPT
                           !.dur = now - transactionStartTime]
    /\ UNCHANGED <<repositoryFactories, transactionStartTime, disposed, context, enableSavepoints,
                   now, startPromise, txCalls, nextRepoId, factoryCalls, pendingSp,
                   disposePending, rollbackCalls>>

----------------------------------------------------------------------------
(* rollback() *)

(* Faulty variant: the early return of rollback() leaves Committed out. *)
rollbackIsIdempotentNoOp_WithoutCommitted == state \in {Inactive, RolledBack}

rollbackIsIdempotentNoOp == state \in {Inactive, Committed, RolledBack}

(* Faulty variant: without a signal to send, the rollback counts as failed. *)
RollbackSignalling_FailsWithoutSignal(caller) ==
    /\ state' = IF rollbackReject THEN RollingBack ELSE Failed
    /\ IF rollbackReject
       THEN /\ ext' = AfterRollbackSignal(ext)
            /\ signalsSent' = Append(signalsSent, "rollback")
       ELSE UNCHANGED <<ext, signalsSent>>
    /\ clearTransactionState
    /\ rollbackCalls' = rollbackCalls \cup {caller}

(* rollback() past its early return: lines 558-578. *)
RollbackSignalling(caller) ==
    /\ state' = RollingBack
    /\ IF rollbackReject
       THEN /\ ext' = AfterRollbackSignal(ext)
            /\ signalsSent' = Append(signalsSent, "rollback")
       ELSE UNCHANGED <<ext, signalsSent>>
    /\ clearTransactionState
    /\ rollbackCalls' = rollbackCalls \cup {caller}

Rollback ==
    /\ IF ensureNotDisposedFails("rollback")
       THEN /\ last' = Ret("rollback", UnitOfWorkDisposedError)
            /\ UNCHANGED <<state, txClient, commitResolve, rollbackReject,
                           repositoryCache, savepoints, savepointOrder, ext, signalsSent,
                           rollbackCalls>>
       ELSE IF rollbackIsIdempotentNoOp
       THEN /\ last' = [Ret("rollback", "success") EXCEPT !.dur = 0]
            /\ UNCHANGED <<state, txClient, commitResolve, rollbackReject,
                           repositoryCache, savepoints, savepointOrder, ext, signalsSent,
                           rollbackCalls>>
       ELSE /\ RollbackSignalling("rollback")
            /\ last' = [Ret("rollback", "success") EXCEPT
                           !.dur = now - transactionStartTime]
    /\ UNCHANGED <<repositoryFactories, transactionStartTime, disposed, context, enableSavepoints,
                   now, startPromise, txCalls, nextRepoId, factoryCalls, pendingSp,
                   disposePending>>

----------------------------------------------------------------------------
(* dispose() *)

disposeForcesRollback == state \in {Active, Committing}

(* Faulty variant: dispose() leaves the registered factories in place. *)
DisposeRelease_KeepsFactories ==
    /\ clearTransactionState
    /\ UNCHANGED repositoryFactories
    /\ disposed' = TRUE

(* dispose() after its optional rollback: lines 927-929. *)
DisposeRelease ==
    /\ clearTransactionState
    /\ repositoryFactories' = EmptyMap
    /\ disposed' = TRUE

DisposeWith(lg) ==
    /\ IF disposed
       THEN /\ last' = Ret("dispose", "ok")
            /\ UNCHANGED <<state, txClient, commitResolve, rollbackReject,
                           repositoryFactories, repositoryCache, savepoints, savepointOrder,
                           disposed, ext, signalsSent, disposePending,
                           rollbackCalls>>
       ELSE IF disposeForcesRollback
                /\ logThrows(lg, "Disposing with active transaction, rolling back")
       THEN \* dispose() throws before it calls rollback()
            /\ last' = Ret("dispose", LoggerError)
            /\ UNCHANGED <<state, txClient, commitResolve, rollbackReject,
                           repositoryFactories, repositoryCache, savepoints, savepointOrder,
                           disposed, ext, signalsSent, disposePending,
                           rollbackCalls>>
       ELSE IF disposeForcesRollback
       THEN \* rollback() runs to its return, then dispose() awaits it
            /\ RollbackSignalling("dispose")
            /\ disposePending' = TRUE
            /\ last' = Ret("dispose", "pending")
            /\ UNCHANGED <<repositoryFactories, disposed>>
       ELSE /\ DisposeRelease
            /\ last' = Ret("dispose", "ok")
            /\ UNCHANGED <<state, ext, signalsSent, disposePending,
                           rollbackCalls>>
    /\ UNCHANGED <<transactionStartTime, context, enableSavepoints, now, startPromise, txCalls,
                   nextRepoId, factoryCalls, pendingSp>>

Dispose == DisposeWith(logger)

(* dispose() resumes after await this.rollback(). *)
DisposeFinish ==
    /\ disposePending
    /\ DisposeRelease
    /\ disposePending' = FALSE
    /\ last' = Resumed("dispose", "ok")
    /\ UNCHANGED <<state, transactionStartTime, context, enableSavepoints, now, ext, startPromise,
                   txCalls, signalsSent, nextRepoId, factoryCalls, pendingSp, rollbackCalls>>

----------------------------------------------------------------------------
(* setContext(), registerRepository(), hasRepository(), getRepository() *)

lifecycleVars == <<state, txClient, commitResolve, rollbackReject, savepoints, savepointOrder,
                   transactionStartTime, disposed, enableSavepoints, now, ext,
                   startPromise, txCalls, signalsSent, pendingSp, disposePending,
                   rollbackCalls>>

SetContext(ctx) ==
    /\ IF ensureNotDisposedFails("setContext")
       THEN /\ last' = Ret("setContext", UnitOfWorkDisposedError)
            /\ UNCHANGED context
       ELSE /\ context' = ctx
            /\ last' = Ret("setContext", "ok")
    /\ UNCHANGED <<lifecycleVars, repositoryFactories, repositoryCache, nextRepoId, factoryCalls>>

RegisterRepository(token, factory) ==
    /\ IF ensureNotDisposedFails("registerRepository")
       THEN /\ last' = [Ret("registerRepository", UnitOfWorkDisposedError)
                           EXCEPT !.arg = token]
            /\ UNCHANGED repositoryFactories
       ELSE /\ repositoryFactories' =
                   MapSet(repositoryFactories, normalizeToken(token), factory)
            /\ last' = [Ret("registerRepository", "this") EXCEPT
                           !.arg = token, !.fn = factory]
    /\ UNCHANGED <<lifecycleVars, context, repositoryCache, nextRepoId, factoryCalls>>

HasRepository(token) ==
    /\ last' = [Ret("hasRepository",
                    IF normalizeToken(token) \in DOMAIN repositoryFactories
                    THEN "true" ELSE "false")
                   EXCEPT !.arg = token]
    /\ UNCHANGED <<lifecycleVars, context, repositoryFactories, repositoryCache,
                   nextRepoId, factoryCalls>>

(* Faulty variant: the cache is never consulted. *)
isCached_Never(key) == FALSE

isCached(key) == key \in DOMAIN repositoryCache

(* new RepositoryNotRegisteredError(key, ...): repositoryToken is the key,
   a symbol by its toString(). *)
tokenString(key) ==
    IF key.kind = "symbol" THEN "Symbol(" \o key.name \o ")" ELSE key.name

(* Faulty variant: the error names the token as it was passed. *)
notRegistered_RawToken(token, key) ==
    [Ret("getRepository", RepositoryNotRegisteredError) EXCEPT
        !.arg = token,
        !.code = IF token.kind = "class" THEN "class { }" ELSE tokenString(token)]

notRegistered(token, key) ==
    [Ret("getRepository", RepositoryNotRegisteredError) EXCEPT
        !.arg = token, !.code = tokenString(key)]

(* Faulty variant: the factory is not handed the transaction's handle. *)
newRepository_NoHandle(key) ==
    [by |-> repositoryFactories[key], tx |-> Null, id |-> nextRepoId]

(* factory(this.txClient!): the object the registered factory returns. *)
newRepository(key) ==
    [by |-> repositoryFactories[key], tx |-> txClient, id |-> nextRepoId]

GetRepository(token) ==
    LET key == normalizeToken(token) IN
    /\ IF ensureNotDisposedFails("getRepository")
       THEN /\ last' = [Ret("getRepository", UnitOfWorkDisposedError)
                           EXCEPT !.arg = token]
            /\ UNCHANGED <<repositoryCache, nextRepoId, factoryCalls>>
       ELSE IF ensureActiveTransactionFails
       THEN /\ last' = [Ret("getRepository", NoActiveTransactionError)
                           EXCEPT !.arg = token]
            /\ UNCHANGED <<repositoryCache, nextRepoId, factoryCalls>>
       ELSE IF isCached(key)
       THEN /\ last' = [Ret("getRepository", "ok") EXCEPT
                           !.arg = token, !.repo = repositoryCache[key]]
            /\ UNCHANGED <<repositoryCache, nextRepoId, factoryCalls>>
       ELSE IF key \notin DOMAIN repositoryFactories
       THEN /\ last' = notRegistered(token, key)
            /\ UNCHANGED <<repositoryCache, nextRepoId, factoryCalls>>
       ELSE LET repository == newRepository(key) IN
            /\ nextRepoId <= MaxRepos
            /\ repositoryCache' = MapSet(repositoryCache, key, repository)
            /\ nextRepoId' = nextRepoId + 1
            /\ factoryCalls' = MapSet(factoryCalls, key, MapGet(factoryCalls, key, 0) + 1)
            /\ last' = [Ret("getRepository", "ok") EXCEPT
                           !.arg = token, !.repo = repository]
    /\ UNCHANGED <<lifecycleVars, context, repositoryFactories>>

----------------------------------------------------------------------------
(* createSavepoint(), rollbackToSavepoint(), releaseSavepoint() *)

savepointFrame == <<state, txClient, commitResolve, rollbackReject,
                    repositoryFactories, transactionStartTime, disposed, context,
                    enableSavepoints, now, ext, startPromise, txCalls,
                    signalsSent, nextRepoId, factoryCalls, disposePending, rollbackCalls>>

(* Faulty variant: the configuration is not checked. *)
SavepointPrecheck_AlwaysEnabled(op, name) ==
    IF ensureNotDisposedFails(op)
    THEN Ret(op, UnitOfWorkDisposedError)
    ELSE IF ensureActiveTransactionFails
    THEN Ret(op, NoActiveTransactionError)
    ELSE Ret(op, "pass")

(* The checks every savepoint method makes before its own: lines 723-725. *)
SavepointPrecheck(op, name) ==
    IF ensureNotDisposedFails(op)
    THEN Ret(op, UnitOfWorkDisposedError)
    ELSE IF ensureActiveTransactionFails
    THEN Ret(op, NoActiveTransactionError)
    ELSE IF ~enableSavepoints
    THEN [Ret(op, SavepointError) EXCEPT !.code = "SAVEPOINTS_DISABLED"]
    ELSE Ret(op, "pass")

(* A savepoint method up to its await of $executeRawUnsafe. *)
SavepointCall(op, name, nameRejected, rejection, statement) ==
    /\ pendingSp = NoPending
    /\ LET pre == SavepointPrecheck(op, name) IN
       IF pre.res # "pass"
       THEN /\ last' = [pre EXCEPT !.arg = SavepointArg(name)]
            /\ UNCHANGED pendingSp
       ELSE IF nameRejected
       THEN /\ last' = [rejection EXCEPT !.arg = SavepointArg(name)]
            /\ UNCHANGED pendingSp
       ELSE /\ pendingSp' = [op |-> op, name |-> name]
            /\ last' = [Ret(op, "pending") EXCEPT
                           !.arg = SavepointArg(name), !.stmt = statement]
    /\ UNCHANGED <<savepointFrame, savepoints, savepointOrder, repositoryCache>>

(* Faulty variant: an existing name is not rejected. *)
CreateSavepoint_NoDuplicateCheck(name) ==
    SavepointCall("createSavepoint", name, FALSE,
                  [Ret("createSavepoint", SavepointError) EXCEPT
                      !.code = "SAVEPOINT_CREATE_FAILED"],
                  "SAVEPOINT")

CreateSavepoint(name) ==
    SavepointCall("createSavepoint", name, name \in DOMAIN savepoints,
                  [Ret("createSavepoint", SavepointError) EXCEPT
                      !.code = "SAVEPOINT_CREATE_FAILED"],
                  "SAVEPOINT")

RollbackToSavepoint(name) ==
    SavepointCall("rollbackToSavepoint", name, name \notin DOMAIN savepoints,
                  Ret("rollbackToSavepoint", SavepointNotFoundError),
                  "ROLLBACK TO SAVEPOINT")

(* Faulty variant: an unknown name is not rejected. *)
ReleaseSavepoint_NoLookup(name) ==
    SavepointCall("releaseSavepoint", name, FALSE,
                  Ret("releaseSavepoint", SavepointNotFoundError),
                  "RELEASE SAVEPOINT")

ReleaseSavepoint(name) ==
    SavepointCall("releaseSavepoint", name, name \notin DOMAIN savepoints,
                  Ret("releaseSavepoint", SavepointNotFoundError),
                  "RELEASE SAVEPOINT")

(* Savepoints that survive rollbackToSavepoint: createdAt > savepointTime is deleted. *)
SavepointsKept(sps, savepointTime) ==
    [n \in {m \in DOMAIN sps : ~(sps[m] > savepointTime)} |-> sps[n]]

(* The database statement succeeded: the method resumes inside its try block. *)
SavepointStatementOk ==
    /\ pendingSp # NoPending
    /\ LET op == pendingSp.op
           name == pendingSp.name IN
       CASE op = "createSavepoint" ->
                /\ savepoints' = MapSet(savepoints, name, now)
                /\ savepointOrder' = OrderAfterSet(savepointOrder, name)
                /\ last' = [Resumed(op, "ok") EXCEPT !.arg = SavepointArg(name)]
                /\ UNCHANGED repositoryCache
         [] op = "rollbackToSavepoint" ->
                IF name \in DOMAIN savepoints
                THEN /\ savepoints' = SavepointsKept(savepoints, savepoints[name])
                     /\ savepointOrder' = OrderRestrictedTo(savepointOrder,
                                               DOMAIN savepoints')
                     /\ repositoryCache' = EmptyMap
                     /\ last' = [Resumed(op, "ok") EXCEPT !.arg = SavepointArg(name)]
                ELSE \* this.savepoints.get(name)! is undefined: caught, rethrown
                     /\ last' = [Resumed(op, SavepointError) EXCEPT
                                    !.code = "SAVEPOINT_ROLLBACK_FAILED",
                                    !.arg = SavepointArg(name)]
                     /\ UNCHANGED <<savepoints, savepointOrder, repositoryCache>>
         [] op = "releaseSavepoint" ->
                /\ savepoints' = MapDelete(savepoints, name)
                /\ savepointOrder' = OrderRestrictedTo(savepointOrder,
                                          DOMAIN savepoints')
                /\ last' = [Resumed(op, "ok") EXCEPT !.arg = SavepointArg(name)]
                /\ UNCHANGED repositoryCache
    /\ pendingSp' = NoPending
    /\ UNCHANGED savepointFrame

(* Faulty variant: the bookkeeping is reset when the statement fails. *)
SavepointStatementFails_ResetsBookkeeping ==
    /\ pendingSp # NoPending
    /\ last' = [Resumed(pendingSp.op, SavepointError) EXCEPT
                   !.code = CASE pendingSp.op = "createSavepoint" -> "SAVEPOINT_CREATE_FAILED"
                              [] pendingSp.op = "rollbackToSavepoint" -> "SAVEPOINT_ROLLBACK_FAILED"
                              [] pendingSp.op = "releaseSavepoint" -> "SAVEPOINT_RELEASE_FAILED",
                   !.arg = SavepointArg(pendingSp.name)]
    /\ pendingSp' = NoPending
    /\ repositoryCache' = EmptyMap
    /\ UNCHANGED <<savepointFrame, savepoints, savepointOrder>>

(* The database statement failed: the catch block wraps the cause. *)
SavepointStatementFails ==
    /\ pendingSp # NoPending
    /\ last' = [Resumed(pendingSp.op, SavepointError) EXCEPT
                   !.code = CASE pendingSp.op = "createSavepoint" -> "SAVEPOINT_CREATE_FAILED"
                              [] pendingSp.op = "rollbackToSavepoint" -> "SAVEPOINT_ROLLBACK_FAILED"
                              [] pendingSp.op = "releaseSavepoint" -> "SAVEPOINT_RELEASE_FAILED",
                   !.arg = SavepointArg(pendingSp.name)]
    /\ pendingSp' = NoPending
    /\ UNCHANGED <<savepointFrame, savepoints, savepointOrder, repositoryCache>>

----------------------------------------------------------------------------
Tick ==
    /\ now < MaxClock
    /\ now' = now + 1
    /\ last' = Env("tick", "ok")
    /\ UNCHANGED <<state, txClient, commitResolve, rollbackReject,
                   repositoryFactories, repositoryCache, savepoints, savepointOrder,
                   transactionStartTime, disposed, context, enableSavepoints, ext, startPromise,
                   txCalls, signalsSent, nextRepoId, factoryCalls, pendingSp, disposePending,
                   rollbackCalls>>

(* The factory and the units of work it created. *)
factoryVars == <<factoryRegistry, created>>

(* The instance driven method by method, no executeInTransaction() call. *)
Next ==
    \/ Start /\ UNCHANGED <<exec, factoryVars, logger>>
    \/ Deliver /\ UNCHANGED <<exec, factoryVars, logger>>
    \/ ThenContinuation /\ UNCHANGED <<exec, factoryVars, logger>>
    \/ ExtRolledBack /\ UNCHANGED <<exec, factoryVars, logger>>
    \/ ExtFailBeforeDeliver /\ UNCHANGED <<exec, factoryVars, logger>>
    \/ ExtFailWhileOpen /\ UNCHANGED <<exec, factoryVars, logger>>
    \/ ExtFailOnCommit /\ UNCHANGED <<exec, factoryVars, logger>>
    \/ Commit /\ UNCHANGED <<exec, factoryVars, logger>>
    \/ Rollback /\ UNCHANGED <<exec, factoryVars, logger>>
    \/ Dispose /\ UNCHANGED <<exec, factoryVars, logger>>
    \/ DisposeFinish /\ UNCHANGED <<exec, factoryVars, logger>>
    \/ \E ctx \in ContextInputs : SetContext(ctx) /\ UNCHANGED <<exec, factoryVars, logger>>
    \/ \E token \in TokenInputs, factory \in FactoryInputs :
           RegisterRepository(token, factory) /\ UNCHANGED <<exec, factoryVars, logger>>
    \/ \E token \in TokenInputs : HasRepository(token) /\ UNCHANGED <<exec, factoryVars, logger>>
    \/ \E token \in TokenInputs : GetRepository(token) /\ UNCHANGED <<exec, factoryVars, logger>>
    \/ \E name \in SavepointNames : CreateSavepoint(name) /\ UNCHANGED <<exec, factoryVars, logger>>
    \/ \E name \in SavepointNames : RollbackToSavepoint(name) /\ UNCHANGED <<exec, factoryVars, logger>>
    \/ \E name \in SavepointNames : ReleaseSavepoint(name) /\ UNCHANGED <<exec, factoryVars, logger>>
    \/ SavepointStatementOk /\ UNCHANGED <<exec, factoryVars, logger>>
    \/ SavepointStatementFails /\ UNCHANGED <<exec, factoryVars, logger>>
    \/ Tick /\ UNCHANGED <<exec, factoryVars, logger>>

Spec == Init /\ [][Next]_vars

(* The same instance constructed with a logger. *)
SpecLogger == InitLogger /\ [][Next]_vars

----------------------------------------------------------------------------
(* executeInTransaction() *)

(* The error the callback throws. *)
CallbackError == "E"

(* Every field of the instance and of the external call. *)
unitOfWorkVars == <<state, txClient, commitResolve, rollbackReject,
                    repositoryFactories, repositoryCache, savepoints,
                    savepointOrder, transactionStartTime, disposed, context,
                    enableSavepoints, logger, now, ext, startPromise, txCalls,
                    signalsSent, nextRepoId, factoryCalls, pendingSp,
                    disposePending, rollbackCalls>>

(* Faulty variant: start() is called inside the try block, so its error is
   answered with rollback(). *)
ExecuteInTransaction_StartInsideTry ==
    /\ exec.pc = "idle"
    /\ Start
    /\ exec' = IF last'.res = "pending"
               THEN [exec EXCEPT !.pc = "awaitStart"]
               ELSE [exec EXCEPT !.pc = "catch", !.out = last'.res]

(* ensureNotDisposed, then start(): a start() that throws is outside the try
   block and goes to the caller as it is. *)
ExecuteInTransaction ==
    /\ exec.pc = "idle"
    /\ Start
    /\ exec' = IF last'.res = "pending"
               THEN [exec EXCEPT !.pc = "awaitStart"]
               ELSE [exec EXCEPT !.pc = "done", !.out = last'.res]

(* Faulty variant: the callback is entered without awaiting start(). *)
AfterStartSettles_NotAwaited ==
    IF exec.pc = "awaitStart" THEN [exec EXCEPT !.pc = "inCallback"] ELSE exec

(* await this.start(options): the call goes on when the promise settles, with
   the callback when it resolved, with the rejection when it was rejected. *)
AfterStartSettles ==
    IF exec.pc = "awaitStart" /\ startPromise' = "resolved"
    THEN [exec EXCEPT !.pc = "inCallback"]
    ELSE IF exec.pc = "awaitStart" /\ startPromise' = "rejected"
    THEN [exec EXCEPT !.pc = "done", !.out = TransactionTimeoutError]
    ELSE exec

(* The callback resolved: commit() is called; its result decides between
   returning the callback's result and the catch block. *)
CallbackResolved ==
    /\ exec.pc = "inCallback"
    /\ Commit
    /\ exec' = IF last'.res = "success"
               THEN [pc |-> "done", cb |-> "resolved", out |-> "result"]
               ELSE [pc |-> "catch", cb |-> "resolved", out |-> last'.res]

(* The callback threw: the catch block is entered with its error. *)
CallbackThrew ==
    /\ exec.pc = "inCallback"
    /\ exec' = [pc |-> "catch", cb |-> "threw", out |-> CallbackError]
    /\ last' = Env("callback", CallbackError)
    /\ UNCHANGED unitOfWorkVars

(* catch (error) { await this.rollback(); throw error; }: an error thrown by
   rollback() leaves the block in place of the caught one. *)
ExecCatch ==
    /\ exec.pc = "catch"
    /\ Rollback
    /\ exec' = [exec EXCEPT
                   !.pc = "done",
                   !.out = IF last'.res = "success" THEN exec.out ELSE last'.res]

(* One flow uses the instance: before the call it is the caller, during the
   call it is the callback. *)
CallerTurn == exec.pc \in {"idle", "inCallback"}

NextExec ==
    \/ ExecuteInTransaction /\ UNCHANGED <<factoryVars, logger>>
    \/ CallbackResolved /\ UNCHANGED <<factoryVars, logger>>
    \/ CallbackThrew /\ UNCHANGED factoryVars
    \/ ExecCatch /\ UNCHANGED <<factoryVars, logger>>
    \/ Deliver /\ exec' = AfterStartSettles /\ UNCHANGED <<factoryVars, logger>>
    \/ ExtFailBeforeDeliver /\ exec' = AfterStartSettles /\ UNCHANGED <<factoryVars, logger>>
    \/ ThenContinuation /\ UNCHANGED <<exec, factoryVars, logger>>
    \/ ExtRolledBack /\ UNCHANGED <<exec, factoryVars, logger>>
    \/ ExtFailWhileOpen /\ UNCHANGED <<exec, factoryVars, logger>>
    \/ ExtFailOnCommit /\ UNCHANGED <<exec, factoryVars, logger>>
    \/ DisposeFinish /\ UNCHANGED <<exec, factoryVars, logger>>
    \/ CallerTurn /\ Start /\ UNCHANGED <<exec, factoryVars, logger>>
    \/ CallerTurn /\ Commit /\ UNCHANGED <<exec, factoryVars, logger>>
    \/ CallerTurn /\ Rollback /\ UNCHANGED <<exec, factoryVars, logger>>
    \/ CallerTurn /\ Dispose /\ UNCHANGED <<exec, factoryVars, logger>>
    \/ \E token \in TokenInputs, factory \in FactoryInputs :
           CallerTurn /\ RegisterRepository(token, factory) /\ UNCHANGED <<exec, factoryVars, logger>>
    \/ \E token \in TokenInputs :
           CallerTurn /\ GetRepository(token) /\ UNCHANGED <<exec, factoryVars, logger>>
    \/ \E name \in SavepointNames :
           CallerTurn /\ CreateSavepoint(name) /\ UNCHANGED <<exec, factoryVars, logger>>
    \/ \E name \in SavepointNames :
           CallerTurn /\ RollbackToSavepoint(name) /\ UNCHANGED <<exec, factoryVars, logger>>
    \/ \E name \in SavepointNames :
           CallerTurn /\ ReleaseSavepoint(name) /\ UNCHANGED <<exec, factoryVars, logger>>
    \/ SavepointStatementOk /\ UNCHANGED <<exec, factoryVars, logger>>
    \/ SavepointStatementFails /\ UNCHANGED <<exec, factoryVars, logger>>

SpecExec == Init /\ [][NextExec]_vars

----------------------------------------------------------------------------
(* PrismaUnitOfWorkFactory and the units of work it creates.  A created unit
   is a new PrismaUnitOfWork: of its fields those are carried that the
   methods called on it here (registerRepository, hasRepository, dispose,
   none of which starts a transaction) read or write. *)

FactoryTokenInputs == TokenInputs \cup {StringToken("OrderRepository")}

(* Faulty variant: a class token is its own key. *)
factoryNormalizeToken_Identity(token) == token

(* PrismaUnitOfWorkFactory.normalizeToken *)
factoryNormalizeToken(token) ==
    IF token.kind \in {"string", "symbol"}
    THEN token
    ELSE StringToken(IF token.name # "" THEN token.name ELSE "class { }")

(* new PrismaUnitOfWork(prisma, config) *)
NewUnitOfWork ==
    [state |-> Inactive, repositoryFactories |-> EmptyMap, disposed |-> FALSE]

(* for (const [token, factory] of this.repositoryFactories)
       unitOfWork.registerRepository(token, factory) *)
RegisterAll(unitOfWork, entries) ==
    [unitOfWork EXCEPT !.repositoryFactories =
        [key \in DOMAIN unitOfWork.repositoryFactories
                    \cup {normalizeToken(token) : token \in DOMAIN entries} |->
            IF \E token \in DOMAIN entries : normalizeToken(token) = key
            THEN entries[CHOOSE token \in DOMAIN entries :
                             normalizeToken(token) = key]
            ELSE unitOfWork.repositoryFactories[key]]]

(* Faulty variant: the registered factories are not handed to the new unit. *)
Create_Empty ==
    /\ Len(created) < MaxUnits
    /\ created' = Append(created, NewUnitOfWork)
    /\ last' = [Ret("factory.create", "ok") EXCEPT !.unit = Len(created) + 1]
    /\ UNCHANGED <<factoryRegistry, unitOfWorkVars, exec>>

Create ==
    /\ Len(created) < MaxUnits
    /\ created' = Append(created, RegisterAll(NewUnitOfWork, factoryRegistry))
    /\ last' = [Ret("factory.create", "ok") EXCEPT !.unit = Len(created) + 1]
    /\ UNCHANGED <<factoryRegistry, unitOfWorkVars, exec>>

FactoryRegisterRepository(token, factory) ==
    /\ factoryRegistry' =
           MapSet(factoryRegistry, factoryNormalizeToken(token), factory)
    /\ last' = [Ret("factory.registerRepository", "this") EXCEPT
                   !.arg = token, !.fn = factory]
    /\ UNCHANGED <<created, unitOfWorkVars, exec>>

FactoryHasRepository(token) ==
    /\ last' = [Ret("factory.hasRepository",
                    IF factoryNormalizeToken(token) \in DOMAIN factoryRegistry
                    THEN "true" ELSE "false")
                   EXCEPT !.arg = token]
    /\ UNCHANGED <<factoryRegistry, created, unitOfWorkVars, exec>>

FactoryUnregisterRepository(token) ==
    /\ factoryRegistry' = MapDelete(factoryRegistry, factoryNormalizeToken(token))
    /\ last' = [Ret("factory.unregisterRepository",
                    IF factoryNormalizeToken(token) \in DOMAIN factoryRegistry
                    THEN "true" ELSE "false")
                   EXCEPT !.arg = token]
    /\ UNCHANGED <<created, unitOfWorkVars, exec>>

FactoryGetRegisteredRepositories ==
    /\ last' = [Ret("factory.getRegisteredRepositories", "ok") EXCEPT
                   !.keys = DOMAIN factoryRegistry]
    /\ UNCHANGED <<factoryRegistry, created, unitOfWorkVars, exec>>

(* registerRepository, hasRepository and dispose called on a created unit. *)
UnitRegisterRepository(u, token, factory) ==
    /\ u \in 1..Len(created)
    /\ IF created[u].disposed
       THEN /\ last' = [Ret("registerRepository", UnitOfWorkDisposedError)
                           EXCEPT !.arg = token, !.unit = u]
            /\ UNCHANGED created
       ELSE /\ created' = [created EXCEPT ![u].repositoryFactories =
                              MapSet(@, normalizeToken(token), factory)]
            /\ last' = [Ret("registerRepository", "this") EXCEPT
                           !.arg = token, !.unit = u, !.fn = factory]
    /\ UNCHANGED <<factoryRegistry, unitOfWorkVars, exec>>

UnitHasRepository(u, token) ==
    /\ u \in 1..Len(created)
    /\ last' = [Ret("hasRepository",
                    IF normalizeToken(token)
                           \in DOMAIN created[u].repositoryFactories
                    THEN "true" ELSE "false")
                   EXCEPT !.arg = token, !.unit = u]
    /\ UNCHANGED <<factoryRegistry, created, unitOfWorkVars, exec>>

(* dispose() of a unit that never started a transaction: no rollback. *)
UnitDispose(u) ==
    /\ u \in 1..Len(created)
    /\ created[u].state \notin {Active, Committing}
    /\ created' = IF created[u].disposed
                  THEN created
                  ELSE [created EXCEPT ![u].repositoryFactories = EmptyMap,
                                       ![u].disposed = TRUE]
    /\ last' = [Ret("dispose", "ok") EXCEPT !.unit = u]
    /\ UNCHANGED <<factoryRegistry, unitOfWorkVars, exec>>

Units == 1..MaxUnits

NextFactory ==
    \/ Create
    \/ \E token \in FactoryTokenInputs, factory \in FactoryInputs :
           FactoryRegisterRepository(token, factory)
    \/ \E token \in FactoryTokenInputs : FactoryHasRepository(token)
    \/ \E token \in FactoryTokenInputs : FactoryUnregisterRepository(token)
    \/ FactoryGetRegisteredRepositories
    \/ \E u \in Units, token \in FactoryTokenInputs, factory \in FactoryInputs :
           UnitRegisterRepository(u, token, factory)
    \/ \E u \in Units, token \in FactoryTokenInputs : UnitHasRepository(u, token)
    \/ \E u \in Units : UnitDispose(u)

SpecFactory == Init /\ [][NextFactory]_vars

----------------------------------------------------------------------------
(* Properties *)

(* Everything a call can change besides what it hands back. *)
instance == <<state, txClient, commitResolve, rollbackReject,
              repositoryFactories, repositoryCache, savepoints, savepointOrder,
              transactionStartTime, disposed, context, enableSavepoints, ext,
              startPromise, txCalls, signalsSent, nextRepoId, factoryCalls, pendingSp,
              disposePending>>

CallOf(ops) == last'.step = "call" /\ last'.op \in ops

(* C1: a start() call made while state is Active (also while the first
   start() is still pending) fails with TransactionAlreadyActiveError, does
   not invoke prisma.$transaction again, and leaves state Active. *)
C1_StartWhileActiveFails ==
    [][ (state = Active /\ CallOf({"start"}))
        => /\ last'.res = TransactionAlreadyActiveError
           /\ txCalls' = txCalls
           /\ ext' = ext
           /\ state' = Active ]_vars

C1_Witness ==
    /\ state = Active
    /\ startPromise = "pending"
    /\ last = Ret("start", TransactionAlreadyActiveError)
    /\ txCalls = 1

(* C2: the instance is single-use: state never returns to Inactive once it
   has left it; a start() issued in Committing, Committed, RollingBack,
   RolledBack or Failed fails (with TransactionAlreadyActiveError; on a
   disposed instance the disposal check comes first and the error is
   UnitOfWorkDisposedError) and changes nothing; prisma.$transaction is
   invoked at most once per instance. *)
C2_SingleUse ==
    [][ /\ (state # Inactive => state' # Inactive)
        /\ (state \in {Committing, Committed, RollingBack, RolledBack, Failed}
              /\ CallOf({"start"})
            => /\ last'.res = IF disposed THEN UnitOfWorkDisposedError
                              ELSE TransactionAlreadyActiveError
               /\ UNCHANGED instance)
        /\ txCalls' <= 1 ]_vars

C2_Witness ==
    /\ state = Committed
    /\ ~disposed
    /\ last = Ret("start", TransactionAlreadyActiveError)
    /\ txCalls = 1

(* C3: every change of state is one of the documented lifecycle: Inactive to
   Active, Active to Committing, Committing to Committed, Active to
   RollingBack, RollingBack to RolledBack, or a move to Failed made by the
   .catch continuation when no rollback was requested. *)
DocumentedTransitions ==
    {<<Inactive, Active>>, <<Active, Committing>>, <<Committing, Committed>>,
     <<Active, RollingBack>>, <<RollingBack, RolledBack>>}

C3_OnlyDocumentedTransitions ==
    [][ state' # state
        => \/ <<state, state'>> \in DocumentedTransitions
           \/ /\ state' = Failed
              /\ state \in {Active, Committing}
              /\ last'.op = "catch" ]_vars

(* C4: when start() resolves the handle is stored, both signals are set,
   state is Active and the external transaction is open with its callback
   suspended. *)
C4_StartResolvesActive ==
    [][ (startPromise # "resolved" /\ startPromise' = "resolved")
        => /\ txClient' # Null
           /\ commitResolve' /\ rollbackReject'
           /\ state' = Active
           /\ ext' = "open" ]_vars

(* C5: commit() called in state Active with the handle present returns
   {success: true, duration >= 0} while the external call is still in flight
   (the callback has only just been released), state is Committing when it
   returns, and when the external call resolves state is Committed. *)
C5_CommitThenCommitted ==
    [][ /\ (CallOf({"commit"}) /\ ~disposed /\ state = Active /\ txClient # Null
            => /\ last'.res = "success"
               /\ last'.dur >= 0
               /\ state' = Committing
               /\ ext' = "cbResolved")
        /\ (last'.step = "env" /\ last'.op = "then"
            => /\ signalsSent = <<"commit">>
               /\ state' = Committed) ]_vars

C5_Witness ==
    /\ state = Committed
    /\ last = Env("then", "ok")
    /\ signalsSent = <<"commit">>
    /\ rollbackCalls = {}

(* C6: once a rollback() called in a state other than Inactive, Committed or
   RolledBack has returned, the transaction never ends Committed. *)
C6_RollbackNeverCommitted ==
    "rollback" \in rollbackCalls => state # Committed

(* C7: rollback() on a non-disposed instance whose state is Inactive,
   Committed or RolledBack returns {success: true, duration: 0} and changes
   nothing: no field changes and no signal is sent. *)
C7_RollbackNoOp ==
    [][ (CallOf({"rollback"}) /\ ~disposed
           /\ state \in {Inactive, Committed, RolledBack})
        => /\ last'.res = "success"
           /\ last'.dur = 0
           /\ UNCHANGED instance
           /\ UNCHANGED rollbackCalls ]_vars

C7_Witness ==
    /\ state = Committed
    /\ ~disposed
    /\ now > transactionStartTime
    /\ last = [Ret("rollback", "success") EXCEPT !.dur = 0]

(* C8: on a non-disposed instance commit, getRepository, createSavepoint,
   rollbackToSavepoint and releaseSavepoint fail with NoActiveTransactionError
   exactly when state is not Active or the handle is absent; the failed call
   changes nothing and sends no signal and no statement. *)
NeedsActiveTransaction ==
    {"commit", "getRepository", "createSavepoint", "rollbackToSavepoint",
     "releaseSavepoint"}

C8_NoActiveTransaction ==
    [][ (CallOf(NeedsActiveTransaction) /\ ~disposed)
        => IF state # Active \/ txClient = Null
           THEN /\ last'.res = NoActiveTransactionError
                /\ last'.stmt = "none"
                /\ UNCHANGED instance
           ELSE last'.res # NoActiveTransactionError ]_vars

C8_Witness ==
    /\ state = Active
    /\ txClient = Null
    /\ ~disposed
    /\ last.op = "commit"
    /\ last.res = NoActiveTransactionError

(* C9: after dispose() has completed, start, commit, rollback, getRepository,
   registerRepository, createSavepoint and setContext fail with
   UnitOfWorkDisposedError and change nothing. *)
C9_DisposedRejects ==
    [][ (disposed /\ CallOf({"start", "commit", "rollback", "getRepository",
                             "registerRepository", "createSavepoint",
                             "setContext"}))
        => /\ last'.res = UnitOfWorkDisposedError
           /\ last'.stmt = "none"
           /\ UNCHANGED instance ]_vars

C9_Witness ==
    /\ disposed
    /\ state = Committed
    /\ last = Ret("rollback", UnitOfWorkDisposedError)

(* C10: disposed never becomes false again; the dispose() that sets it leaves
   repositoryFactories, repositoryCache and savepoints empty and the handle
   null; a dispose() on a disposed instance returns and changes nothing; a
   dispose() outside Active and Committing leaves state as it was. *)
C10_DisposeFinal ==
    [][ /\ (disposed => disposed')
        /\ (~disposed /\ disposed'
            => /\ last'.op = "dispose"
               /\ repositoryFactories' = EmptyMap
               /\ repositoryCache' = EmptyMap
               /\ savepoints' = EmptyMap
               /\ txClient' = Null)
        /\ (disposed /\ CallOf({"dispose"})
            => last'.res = "ok" /\ UNCHANGED instance)
        /\ (last'.op = "dispose" /\ state \notin {Active, Committing}
            => state' = state) ]_vars

C10_Witness ==
    /\ disposed
    /\ state = Inactive
    /\ last = Ret("dispose", "ok")
    /\ context # Null

(* C11: a dispose() call made in Active or Committing, after start() handed
   over the handle, signals the rollback to the bridge before the instance is
   marked disposed, and once dispose() has gone through its rollback the state
   is never Committed. *)
C11_DisposeForcesRollback ==
    [][ /\ (/\ CallOf({"dispose"})
            /\ ~disposed
            /\ state \in {Active, Committing}
            /\ startPromise = "resolved"
            => /\ signalsSent' = Append(signalsSent, "rollback")
               /\ ~disposed')
        /\ ("dispose" \in rollbackCalls' => state' # Committed) ]_vars

(* C12 as stated: within the transaction of an instance the factory of a
   token is invoked at most once, whatever is called between two
   getRepository(token) calls. *)
C12_OneFactoryCallPerTransaction ==
    \A key \in DOMAIN factoryCalls : factoryCalls[key] <= 1

(* C12, amended: a getRepository(token) call that finds the key cached hands
   back the cached instance without invoking a factory; a cached instance is
   never replaced, and it leaves the cache only when rollbackToSavepoint
   succeeds or the transaction is ended by commit(), rollback() or dispose();
   registerRepository, createSavepoint and releaseSavepoint leave it alone. *)
C12_OneInstanceUntilCacheCleared ==
    [][ /\ \A token \in TokenInputs :
              (/\ CallOf({"getRepository"})
               /\ last'.arg = token
               /\ last'.res = "ok"
               /\ normalizeToken(token) \in DOMAIN repositoryCache)
              => /\ last'.repo = repositoryCache[normalizeToken(token)]
                 /\ UNCHANGED <<repositoryCache, factoryCalls>>
        /\ \A key \in DOMAIN repositoryCache :
              \/ key \in DOMAIN repositoryCache'
                 /\ repositoryCache'[key] = repositoryCache[key]
              \/ last'.op = "rollbackToSavepoint" /\ last'.step = "resume"
                 /\ last'.res = "ok"
              \/ last'.op \in {"commit", "rollback", "dispose"}
        /\ (factoryCalls' # factoryCalls
            => CallOf({"getRepository"}) /\ last'.res = "ok") ]_vars

(* A second getRepository() served from the cache although the token was
   registered again, with another factory, after the first. *)
C12_Witness ==
    /\ last.op = "getRepository"
    /\ last.res = "ok"
    /\ \E key \in DOMAIN repositoryCache :
          /\ last.repo = repositoryCache[key]
          /\ last.repo.by # repositoryFactories[key]
          /\ factoryCalls[key] = 1

(* C13: getRepository(token) on an active transaction (handle present, not
   disposed) with no factory under the normalized token fails with
   RepositoryNotRegisteredError naming the token (a class by its name), and
   changes neither the cache, nor the state, nor the handle, nor any other
   field. *)
C13_RepositoryNotRegistered ==
    [][ \A token \in TokenInputs :
           (/\ CallOf({"getRepository"})
            /\ last'.arg = token
            /\ ~disposed
            /\ state = Active
            /\ txClient # Null
            /\ normalizeToken(token) \notin DOMAIN repositoryFactories)
           => /\ last'.res = RepositoryNotRegisteredError
              /\ last'.code = token.name
              /\ last'.repo = NoRepo
              /\ UNCHANGED instance ]_vars

C13_Witness ==
    /\ last.op = "getRepository"
    /\ last.res = RepositoryNotRegisteredError
    /\ last.arg = ClassToken("UserRepository")
    /\ last.code = "UserRepository"
    /\ state = Active
    /\ txClient = Tx

(* C14: a rollbackToSavepoint(A) that succeeds leaves in the savepoint map
   exactly A and the savepoints created before A, whatever the clock read
   when each was created; a later rollbackToSavepoint of a name that is not
   in the map fails with SavepointNotFoundError. *)
C14_RollbackEvictsLaterSavepoints ==
    [][ /\ (/\ last'.step = "resume"
            /\ last'.op = "rollbackToSavepoint"
            /\ last'.res = "ok")
           => \E i \in 1..Len(savepointOrder) :
                 /\ savepointOrder[i] = last'.arg.name
                 /\ savepointOrder' = SubSeq(savepointOrder, 1, i)
                 /\ DOMAIN savepoints' = {savepointOrder[j] : j \in 1..i}
        /\ (/\ CallOf({"rollbackToSavepoint"})
            /\ ~disposed /\ ~ensureActiveTransactionFails /\ enableSavepoints
            /\ last'.arg.name \notin DOMAIN savepoints)
           => last'.res = SavepointNotFoundError ]_vars

(* A savepoint method called where its three entry checks pass: not disposed,
   state Active with the handle present, savepoints enabled. *)
SavepointCallAdmitted(op, name) ==
    /\ CallOf({op})
    /\ last'.arg = SavepointArg(name)
    /\ ~disposed
    /\ state = Active
    /\ txClient # Null
    /\ enableSavepoints

SavepointResumed(op, name) ==
    /\ last'.step = "resume"
    /\ last'.op = op
    /\ last'.arg = SavepointArg(name)

(* C15: createSavepoint(name) on an active transaction (savepoints enabled)
   fails with SavepointError when the name is in the savepoint map, issuing
   no statement and changing nothing; otherwise it issues the one SAVEPOINT
   statement, leaving the map alone until the statement succeeds, and then
   adds exactly the entry name -> now; a failed statement adds nothing. *)
C15_CreateSavepoint ==
    [][ \A name \in SavepointNames :
          /\ SavepointCallAdmitted("createSavepoint", name)
             => IF name \in DOMAIN savepoints
                THEN /\ last'.res = SavepointError
                     /\ last'.stmt = "none"
                     /\ UNCHANGED instance
                ELSE /\ last'.res = "pending"
                     /\ last'.stmt = "SAVEPOINT"
                     /\ pendingSp' = [op |-> "createSavepoint", name |-> name]
                     /\ UNCHANGED <<savepoints, savepointOrder>>
          /\ SavepointResumed("createSavepoint", name)
             => /\ last'.stmt = "none"
                /\ IF last'.res = "ok"
                   THEN savepoints' = MapSet(savepoints, name, now)
                   ELSE /\ last'.res = SavepointError
                        /\ UNCHANGED <<savepoints, savepointOrder>> ]_vars

C15_Witness ==
    /\ last.step = "call"
    /\ last.op = "createSavepoint"
    /\ last.res = SavepointError
    /\ last.code = "SAVEPOINT_CREATE_FAILED"
    /\ last.arg.name \in DOMAIN savepoints
    /\ state = Active

(* C16: releaseSavepoint(name) (entry checks passed) fails with
   SavepointNotFoundError, issuing no statement and changing nothing, when
   the name is not in the savepoint map; otherwise it issues the RELEASE
   SAVEPOINT statement and on its success removes that name and nothing else
   from the map, and leaves the repository cache as it is. *)
C16_ReleaseSavepoint ==
    [][ \A name \in SavepointNames :
          /\ SavepointCallAdmitted("releaseSavepoint", name)
             => IF name \notin DOMAIN savepoints
                THEN /\ last'.res = SavepointNotFoundError
                     /\ last'.stmt = "none"
                     /\ UNCHANGED instance
                ELSE /\ last'.res = "pending"
                     /\ last'.stmt = "RELEASE SAVEPOINT"
                     /\ UNCHANGED <<savepoints, savepointOrder, repositoryCache>>
          /\ SavepointResumed("releaseSavepoint", name) /\ last'.res = "ok"
             => /\ savepoints' = MapDelete(savepoints, name)
                /\ UNCHANGED repositoryCache ]_vars

(* A release that removed one of two savepoints, with a repository cached. *)
C16_Witness ==
    /\ last.step = "resume"
    /\ last.op = "releaseSavepoint"
    /\ last.res = "ok"
    /\ last.arg.name \notin DOMAIN savepoints
    /\ savepoints # EmptyMap
    /\ repositoryCache # EmptyMap

(* C17: with enableSavepoints = false the three savepoint methods, called on
   an active transaction, fail with SavepointError (savepoints disabled),
   issue no statement and change nothing; the savepoint map is empty in
   every state of such an instance. *)
C17_SavepointsDisabled ==
    [][ ~enableSavepoints
        => /\ savepoints' = EmptyMap
           /\ pendingSp' = NoPending
           /\ (/\ CallOf({"createSavepoint", "rollbackToSavepoint",
                          "releaseSavepoint"})
               /\ ~disposed
               /\ state = Active
               /\ txClient # Null)
              => /\ last'.res = SavepointError
                 /\ last'.code = "SAVEPOINTS_DISABLED"
                 /\ last'.stmt = "none"
                 /\ UNCHANGED instance ]_vars

C17_Witness ==
    /\ ~enableSavepoints
    /\ state = Active
    /\ last.op = "rollbackToSavepoint"
    /\ last.code = "SAVEPOINTS_DISABLED"
    /\ repositoryCache # EmptyMap

(* C20: when prisma.$transaction rejects with a timeout-shaped error while
   state is Active (no rollback requested), before or after the handle was
   delivered, state becomes Failed and the promise start() returned is
   rejected (with TransactionTimeoutError). *)
C20_TimeoutSurfacesThroughStart ==
    [][ \A error \in ExternalErrors :
           (/\ isTimeoutError(error)
            /\ last'.step = "env"
            /\ last'.op = "catch"
            /\ last'.res = error.name
            /\ state = Active)
           => /\ state' = Failed
              /\ startPromise' = "rejected" ]_vars

(* C18: an executeInTransaction() call on an Inactive instance whose callback
   threw E has, once it is over, given the caller exactly E, and the state is
   not Committed then or later, whatever the callback called before it
   threw. *)
C18_CallbackErrorReachesCaller ==
    exec.pc = "done" /\ exec.cb = "threw"
    => exec.out = CallbackError /\ state # Committed

(* The order in which an executeInTransaction() call goes through its parts. *)
ExecOrder ==
    {<<"idle", "awaitStart">>, <<"idle", "done">>,
     <<"awaitStart", "inCallback">>, <<"awaitStart", "done">>,
     <<"inCallback", "done">>, <<"inCallback", "catch">>,
     <<"catch", "done">>}

(* C19: executeInTransaction runs start, the callback, commit in that order:
   the callback is entered only from the await of start(), when the start()
   promise has resolved, with state Active and the handle present; commit()
   is called only when the callback has resolved; the caller receives the
   callback's result only from a commit() that succeeded (state Committing,
   commit signal sent), and from then on the state is Committed as soon as
   the external transaction has resolved. *)
C19_StartCallbackCommit ==
    [][ /\ (exec'.pc # exec.pc => <<exec.pc, exec'.pc>> \in ExecOrder)
        /\ (exec'.pc = "inCallback" /\ exec.pc # "inCallback"
            => /\ exec.pc = "awaitStart"
               /\ startPromise' = "resolved"
               /\ state' = Active
               /\ txClient' # Null)
        /\ (exec'.cb = "resolved" /\ exec.cb = "none"
            => exec.pc = "inCallback" /\ CallOf({"commit"}))
        /\ (exec'.out = "result" /\ exec.out # "result"
            => /\ exec'.cb = "resolved"
               /\ last'.res = "success"
               /\ state' = Committing
               /\ signalsSent' = Append(signalsSent, "commit"))
        /\ (exec'.out = "result" /\ ext' = "committed"
            => state' = Committed) ]_vars

(* The call returned the callback's result and the transaction committed,
   after the callback had used a repository. *)
C19_Witness ==
    /\ exec = [pc |-> "done", cb |-> "resolved", out |-> "result"]
    /\ state = Committed
    /\ ext = "committed"
    /\ factoryCalls # EmptyMap

(* C21: when prisma.$transaction rejects while the promise start() returned
   is still pending and state is Active (the handle was never delivered),
   whatever the error, the promise is rejected and state is Failed: start()
   does not stay pending once the external call has rejected. *)
C21_StartSettles ==
    [][ (/\ last'.step = "env"
         /\ last'.op = "catch"
         /\ state = Active
         /\ startPromise = "pending")
        => /\ startPromise' = "rejected"
           /\ state' = Failed ]_vars

(* C22: create() appends a new unit of work, Inactive and not disposed, whose
   registered factories are exactly the factory's at that moment, and changes
   nothing else; registerRepository and unregisterRepository on the factory
   change no created unit; registerRepository and dispose() on a created
   unit change neither the factory's registry nor any other unit. *)
C22_CreateCopiesRegistry ==
    [][ /\ (last'.op = "factory.create")
           => /\ Len(created') = Len(created) + 1
              /\ SubSeq(created', 1, Len(created)) = created
              /\ created'[Len(created')].state = Inactive
              /\ ~created'[Len(created')].disposed
              /\ created'[Len(created')].repositoryFactories = factoryRegistry
              /\ UNCHANGED factoryRegistry
        /\ (last'.op \in {"factory.registerRepository",
                          "factory.unregisterRepository"})
           => UNCHANGED created
        /\ (last'.op \in {"registerRepository", "dispose"} /\ last'.unit # 0)
           => /\ UNCHANGED factoryRegistry
              /\ Len(created') = Len(created)
              /\ \A v \in 1..Len(created) :
                    v # last'.unit => created'[v] = created[v] ]_vars

(* Two created units and the factory, each with a registry of its own. *)
C22_Witness ==
    /\ Len(created) = 2
    /\ created[1].disposed
    /\ created[2].repositoryFactories # EmptyMap
    /\ created[2].repositoryFactories # factoryRegistry
    /\ factoryRegistry # EmptyMap
    /\ last.op = "factory.unregisterRepository"

(* The key of a token: a string or a symbol is its own key, a class is keyed
   by its name. *)
KeyOf(token) ==
    IF token.kind = "class" THEN StringToken(token.name) ELSE token

(* C23: on the factory and on a created unit (not disposed) the registry is a
   map over the keys of the tokens: registerRepository returns the receiver
   and stores the factory it was given under the token's key, replacing what
   was there and nothing else; hasRepository(t) is true exactly when t's key
   is in the map; the factory's unregisterRepository(t) is true exactly when
   t's key was in the map and removes that key only; the factory's
   getRegisteredRepositories() gives exactly the keys of the map. *)
C23_RegistryIsMap ==
    [][ /\ \A token \in FactoryTokenInputs :
             (last'.step = "call" /\ last'.arg = token)
             => /\ (last'.op = "factory.registerRepository")
                   => /\ last'.res = "this"
                      /\ factoryRegistry' =
                             MapSet(factoryRegistry, KeyOf(token), last'.fn)
                /\ (last'.op = "factory.hasRepository")
                   => (last'.res = "true"
                       <=> KeyOf(token) \in DOMAIN factoryRegistry)
                /\ (last'.op = "factory.unregisterRepository")
                   => /\ (last'.res = "true"
                          <=> KeyOf(token) \in DOMAIN factoryRegistry)
                      /\ factoryRegistry' =
                             MapDelete(factoryRegistry, KeyOf(token))
                /\ (/\ last'.op = "registerRepository"
                    /\ last'.unit # 0
                    /\ ~created[last'.unit].disposed)
                   => /\ last'.res = "this"
                      /\ created'[last'.unit].repositoryFactories =
                             MapSet(created[last'.unit].repositoryFactories,
                                    KeyOf(token), last'.fn)
                /\ (last'.op = "hasRepository" /\ last'.unit # 0)
                   => (last'.res = "true"
                       <=> KeyOf(token)
                             \in DOMAIN created[last'.unit].repositoryFactories)
        /\ (last'.op = "factory.getRegisteredRepositories")
           => /\ last'.keys = DOMAIN factoryRegistry
              /\ UNCHANGED factoryRegistry ]_vars

(* A class token unregistered what was registered last under its name, with
   another key left in the registry. *)
C23_Witness ==
    /\ last.op = "factory.unregisterRepository"
    /\ last.res = "true"
    /\ last.arg = ClassToken("UserRepository")
    /\ DOMAIN factoryRegistry = {StringToken("OrderRepository")}

(* commit() returned success: true: it does so exactly when it went past its
   checks, where it sends the commit signal. *)
CommitReturnedSuccess ==
    \E i \in 1..Len(signalsSent) : signalsSent[i] = "commit"

(* C24: once commit() has returned success: true the external transaction
   does not end aborted and state is never Failed or RolledBack. *)
C24_CommitPersists ==
    CommitReturnedSuccess
    => /\ ext \in {"cbResolved", "committed"}
       /\ state \notin {Failed, RolledBack}

(* C25: on a disposed instance hasRepository, rollbackToSavepoint and
   releaseSavepoint fail with UnitOfWorkDisposedError. *)
C25_DisposedRejectsTheRest ==
    [][ (/\ disposed
         /\ CallOf({"hasRepository", "rollbackToSavepoint",
                    "releaseSavepoint"}))
        => last'.res = UnitOfWorkDisposedError ]_vars

(* C26: in every reachable state the repository cache is non-empty only with
   state Active and the handle present, and every cached instance was built
   with the handle of the transaction. *)
C26_CacheOnlyWhileActive ==
    repositoryCache # EmptyMap
    => /\ state = Active
       /\ txClient # Null
       /\ \A key \in DOMAIN repositoryCache : repositoryCache[key].tx = txClient

(* C27: in every reachable state the savepoint map is empty when state is not
   Active. *)
C27_SavepointsOnlyWhileActive ==
    state # Active => savepoints = EmptyMap

(* C28: in every reachable state the handle is null unless state is Active. *)
C28_HandleOnlyWhileActive ==
    txClient # Null => state = Active

(* C29 as stated: a getRepository(token) call that succeeds returns an
   instance built by the factory registered last under the token, also when
   a repository of an earlier factory was obtained before. *)
C29_LastRegistrationServes ==
    [][ \A token \in TokenInputs :
           (/\ CallOf({"getRepository"})
            /\ last'.arg = token
            /\ last'.res = "ok")
           => last'.repo.by = repositoryFactories[normalizeToken(token)] ]_vars

(* C29, amended: a getRepository(token) call that succeeds and finds nothing
   cached under the token returns a new instance built by the factory
   registered last under the token, with the handle of the transaction, and
   caches it; one that finds an instance cached returns that instance,
   whichever factory is registered by then. *)
C29_RegistrationServesWhenNotCached ==
    [][ \A token \in TokenInputs :
           (/\ CallOf({"getRepository"})
            /\ last'.arg = token
            /\ last'.res = "ok")
           => IF normalizeToken(token) \in DOMAIN repositoryCache
              THEN last'.repo = repositoryCache[normalizeToken(token)]
              ELSE /\ last'.repo.by = repositoryFactories[normalizeToken(token)]
                   /\ last'.repo.tx = txClient
                   /\ last'.repo.id = nextRepoId
                   /\ repositoryCache' =
                          MapSet(repositoryCache, normalizeToken(token),
                                 last'.repo) ]_vars

(* The second instance of the transaction, built by the factory registered
   by then, after the cache had been cleared. *)
C29_Witness ==
    /\ last.op = "getRepository"
    /\ last.res = "ok"
    /\ last.repo.id = 2
    /\ last.repo.by = "f2"
    /\ last.repo.tx = txClient
    /\ state = Active
    /\ savepoints # EmptyMap

(* C30: when rollbackToSavepoint(name) succeeds, in that step the repository
   cache is emptied and the savepoints created after name are removed (name
   and the earlier ones stay), while state and handle stay as they are. *)
C30_RollbackToSavepointInvalidates ==
    [][ (/\ last'.step = "resume"
         /\ last'.op = "rollbackToSavepoint"
         /\ last'.res = "ok")
        => /\ repositoryCache' = EmptyMap
           /\ UNCHANGED <<state, txClient>>
           /\ \A i, j \in 1..Len(savepointOrder) :
                 savepointOrder[i] = last'.arg.name
                 => (savepointOrder[j] \in DOMAIN savepoints' <=> j <= i) ]_vars

(* C31: in executeInTransaction, when the callback or commit() failed with an
   error and the rollback() of the catch block fails as well, the caller
   receives the error the catch block caught, not the one of rollback(). *)
C31_OriginalErrorSurvivesRollback ==
    [][ (/\ exec.pc = "catch"
         /\ exec'.pc = "done"
         /\ last'.op = "rollback"
         /\ last'.res # "success")
        => exec'.out = exec.out ]_vars

(* C33: over any sequence of calls at most one bridge signal is invoked, once;
   commitResolve and rollbackReject are both set or both null; a commit() or
   rollback() (also the one dispose() runs) that invoked a signal leaves both
   null. *)
C33_SignalsUsedOnce ==
    [][ /\ Len(signalsSent') <= 1
        /\ commitResolve' = rollbackReject'
        /\ (signalsSent' # signalsSent
            => /\ last'.op \in {"commit", "rollback", "dispose"}
               /\ commitResolve
               /\ rollbackReject
               /\ ~commitResolve'
               /\ ~rollbackReject') ]_vars

(* A rollback() after the commit signal was sent: it finds no signal. *)
C33_Witness ==
    /\ signalsSent = <<"commit">>
    /\ last.op = "rollback"
    /\ last.res = "success"
    /\ state = RollingBack
    /\ ~commitResolve
    /\ ~rollbackReject

(* C34: Committed, RolledBack and Failed are absorbing: once state is one of
   them, no call and no external completion changes it. *)
C34_TerminalStatesAbsorbing ==
    [][ (state \in {Committed, RolledBack, Failed}) => (state' = state) ]_vars

(* C35: state becomes Committed only after a commit() call sent the commit
   signal; state becomes RolledBack only after a rollback() (called directly
   or by dispose()) went past its early return; an external rejection that
   arrives while state is RollingBack gives RolledBack, never Failed. *)
C35_OutcomeFollowsRequest ==
    [][ /\ (state' = Committed /\ state # Committed
            => signalsSent = <<"commit">>)
        /\ (state' = RolledBack /\ state # RolledBack
            => rollbackCalls # {})
        /\ (state = RollingBack /\ last'.step = "env" /\ last'.op = "catch"
            => state' = RolledBack) ]_vars

(* The external client failed on its own before delivering the handle, after
   dispose() had asked for the rollback. *)
C35_Witness ==
    /\ state = RolledBack
    /\ last = Env("catch", ConnectionError.name)
    /\ rollbackCalls = {"dispose"}
    /\ signalsSent = <<>>

(* C36: a savepoint method whose database statement fails ends with a
   SavepointError carrying the code of that method, and neither its part up
   to the statement nor its failure changes the savepoint map, the repository
   cache, the state or the handle. *)
C36_FailedStatementChangesNothing ==
    [][ \A op \in {"createSavepoint", "rollbackToSavepoint", "releaseSavepoint"} :
          /\ (CallOf({op}) /\ last'.res = "pending"
              => /\ state = Active
                 /\ UNCHANGED <<savepoints, savepointOrder, repositoryCache,
                                state, txClient>>)
          /\ (/\ last'.step = "resume"
              /\ last'.op = op
              /\ last'.res # "ok")
             => /\ last'.res = SavepointError
                /\ last'.code =
                      CASE op = "createSavepoint" -> "SAVEPOINT_CREATE_FAILED"
                        [] op = "rollbackToSavepoint" -> "SAVEPOINT_ROLLBACK_FAILED"
                        [] op = "releaseSavepoint" -> "SAVEPOINT_RELEASE_FAILED"
                /\ UNCHANGED <<savepoints, savepointOrder, repositoryCache,
                               state, txClient>> ]_vars

(* A rollbackToSavepoint whose statement failed, with a savepoint stored and
   a repository cached. *)
C36_Witness ==
    /\ last.step = "resume"
    /\ last.op = "rollbackToSavepoint"
    /\ last.res = SavepointError
    /\ last.arg.name \in DOMAIN savepoints
    /\ state = Active
    /\ txClient # Null
    /\ repositoryCache # EmptyMap

(* C37: executeInTransaction called on a non-disposed instance whose state is
   not Inactive fails with TransactionAlreadyActiveError; the callback is not
   invoked, neither commit() nor rollback() is called, and no field of the
   instance changes. *)
C37_ExecuteWhileBusyChangesNothing ==
    [][ (/\ exec.pc = "idle"
         /\ exec'.pc # "idle"
         /\ ~disposed
         /\ state # Inactive)
        => /\ exec' = [pc |-> "done", cb |-> "none",
                       out |-> TransactionAlreadyActiveError]
           /\ last'.op = "start"
           /\ UNCHANGED instance
           /\ UNCHANGED rollbackCalls ]_vars

(* executeInTransaction refused on an instance whose transaction, started by
   start(), is open with a repository cached. *)
C37_Witness ==
    /\ exec = [pc |-> "done", cb |-> "none",
               out |-> TransactionAlreadyActiveError]
    /\ state = Active
    /\ txClient # Null
    /\ commitResolve
    /\ repositoryCache # EmptyMap
    /\ signalsSent = <<>>
    /\ rollbackCalls = {}

(* C38: whenever the transaction callback is suspended with the transaction
   open, a call on the instance can still release it: commit() would send the
   commit signal or rollback() would send the rollback signal. *)
C38_OpenTransactionCanBeReleased ==
    ext = "open"
    => /\ ~ensureNotDisposedFails("rollback")
       /\ \/ ~ensureActiveTransactionFails /\ commitResolve
          \/ ~rollbackIsIdempotentNoOp /\ rollbackReject

(* C39: rollback() on a non-disposed instance returns {success: true} in every
   state; outside Inactive, Committed and RolledBack it sets state to
   RollingBack, also when there is no rollback signal to invoke, in which
   case nothing is signalled to the external transaction. *)
C39_RollbackAlwaysReturns ==
    [][ (CallOf({"rollback"}) /\ ~disposed)
        => /\ last'.res = "success"
           /\ (state \notin {Inactive, Committed, RolledBack}
               => /\ state' = RollingBack
                  /\ (~rollbackReject => UNCHANGED <<ext, signalsSent>>)) ]_vars

(* rollback() called in Failed: no signal, success, RollingBack. *)
C39_Witness ==
    /\ last.step = "call"
    /\ last.op = "rollback"
    /\ last.res = "success"
    /\ state = RollingBack
    /\ ext = "aborted"
    /\ signalsSent = <<>>
    /\ ~disposed

(* C32: the logger is observational only: whatever logger is configured,
   every step of a method or continuation that logs is the step it takes
   with no logger configured, from the same state to the same state with the
   same result for the caller. *)
C32_LoggerObservationalOnly ==
    [][ /\ (CallOf({"start"}) => StartWith(NoLogger))
        /\ (CallOf({"dispose"}) => DisposeWith(NoLogger))
        /\ (last'.step = "env" /\ last'.op = "then"
            => ThenContinuationWith(NoLogger))
        /\ (last'.step = "env" /\ last'.op = "catch"
            => \E error \in ExternalErrors \cup {RollbackSignalError} :
                  CatchContinuationWith(NoLogger, error)) ]_vars

====
